---- MODULE Spec2Model ----
(***************************************************************************)
(* Migration 048 of borg-ui: rebuild of the SQLite table ssh_connections   *)
(* so that its foreign key ssh_key_id -> ssh_keys(id) uses ON DELETE SET   *)
(* NULL instead of ON DELETE CASCADE.                                      *)
(*                                                                         *)
(* The database is modelled as a catalog of two table slots                *)
(* (ssh_connections and the scratch table ssh_connections_new), the set of *)
(* indexes and the rows of ssh_keys.  upgrade() is modelled statement by   *)
(* statement; every SQL statement is an operator that computes what SQLite *)
(* does with it, including the cases in which SQLite rejects it.           *)
(***************************************************************************)
EXTENDS Integers, Sequences, FiniteSets, TLC

\* ------------------------------------------------------------- bounds
MaxRows == 2
MaxKeys == 1
MaxExtra == 2
MaxRuns == 2
MaxWrites == 1

\* ------------------------------------------------------------- values
\* SQL NULL, and Python's None for a column without a default
NULL == 0
NoDefault == -1

T_CONN == "ssh_connections"
T_NEW == "ssh_connections_new"
TableNames == {T_CONN, T_NEW}
IX_NAME == "ix_ssh_connections_ssh_key_id"

\* the delete actions PRAGMA foreign_key_list reports in row[6]
Actions == {"CASCADE", "SET NULL", "NO ACTION", "SET DEFAULT", "RESTRICT"}

\* columns added by later migrations, in the order they were added
ExtraNames == <<"owner_id", "use_sftp_mode", "ssh_path_prefix", "default_path">>
ExtraTypes == <<"INTEGER", "BOOLEAN", "TEXT", "TEXT">>

Keys == 1..MaxKeys

\* ------------------------------------------------------------- catalog
Absent == [exists |-> FALSE, cols |-> <<>>, fks |-> {}, rows |-> {}]

ColNames(t) == {t.cols[i].name : i \in DOMAIN t.cols}

Col(t, n) == CHOOSE c \in {t.cols[i] : i \in DOMAIN t.cols} : c.name = n

\* the value a column takes when an INSERT does not name it
DefaultOf(t, n) == IF Col(t, n).dflt = NoDefault THEN NULL ELSE Col(t, n).dflt

\* PRAGMA foreign_key_list(t): no rows for a table that does not exist
ForeignKeyList(d, t) == IF d.tables[t].exists THEN d.tables[t].fks ELSE {}

\* PRAGMA table_info(t): rows (cid, name, type, notnull, dflt_value, pk)
TableInfo(d, t) == IF d.tables[t].exists THEN d.tables[t].cols ELSE <<>>

\* DROP TABLE IF EXISTS t: the table goes, and its indexes with it
DropTableIfExists(d, t) ==
    [d EXCEPT !.tables[t] = Absent,
              !.indexes = {i \in @ : i.tbl # t}]

\* DROP TABLE t fails when t does not exist
CanDropTable(d, t) == d.tables[t].exists

DropTable(d, t) == DropTableIfExists(d, t)

\* CREATE TABLE: rejected when the name is taken, when two column
\* definitions carry PRIMARY KEY, or when a FOREIGN KEY clause names a
\* column the table does not have
CanCreateTable(d, ddl) ==
    /\ ~d.tables[ddl.name].exists
    /\ Len(ddl.col_defs) > 0
    /\ Cardinality({i \in DOMAIN ddl.col_defs : ddl.col_defs[i].primary_key}) <= 1
    /\ \A k \in DOMAIN ddl.fk_defs :
          \E i \in DOMAIN ddl.col_defs : ddl.col_defs[i].name = ddl.fk_defs[k].from

CreateTable(d, ddl) ==
    [d EXCEPT !.tables[ddl.name] =
        [exists |-> TRUE,
         cols   |-> [i \in DOMAIN ddl.col_defs |->
                        [name    |-> ddl.col_defs[i].name,
                         type    |-> ddl.col_defs[i].type,
                         notnull |-> ddl.col_defs[i].not_null,
                         dflt    |-> ddl.col_defs[i].default,
                         pk      |-> IF ddl.col_defs[i].primary_key THEN 1 ELSE 0]],
         fks    |-> {[from      |-> ddl.fk_defs[k].from,
                      table     |-> ddl.fk_defs[k].table,
                      to        |-> ddl.fk_defs[k].to,
                      on_delete |-> ddl.fk_defs[k].on_delete] : k \in DOMAIN ddl.fk_defs},
         rows   |-> {}]]

SeqRange(s) == {s[i] : i \in DOMAIN s}

\* the rows INSERT INTO dst (names) SELECT names FROM src would add
SelectedRows(d, dst, src, names) ==
    {[c \in ColNames(d.tables[dst]) |->
         IF c \in SeqRange(names) THEN r[c] ELSE DefaultOf(d.tables[dst], c)]
     : r \in d.tables[src].rows}

\* INSERT ... SELECT is rejected when a table or a named column is missing,
\* when a NOT NULL column would receive NULL, or when a primary key repeats
CanInsertSelect(d, dst, src, names) ==
    /\ d.tables[dst].exists
    /\ d.tables[src].exists
    /\ SeqRange(names) \subseteq ColNames(d.tables[dst])
    /\ SeqRange(names) \subseteq ColNames(d.tables[src])
    /\ \A r \in SelectedRows(d, dst, src, names) :
          \A c \in ColNames(d.tables[dst]) :
             (Col(d.tables[dst], c).notnull /\ Col(d.tables[dst], c).pk = 0) => r[c] # NULL
    /\ \A r1 \in SelectedRows(d, dst, src, names) :
          \A r2 \in SelectedRows(d, dst, src, names) \cup d.tables[dst].rows :
             \A c \in ColNames(d.tables[dst]) :
                (Col(d.tables[dst], c).pk > 0 /\ r1[c] = r2[c]) => r1 = r2

\* (mutant) the copy statement selects no row
InsertSelectNothing(d, dst, src, names) == d

InsertSelect(d, dst, src, names) ==
    [d EXCEPT !.tables[dst].rows = @ \cup SelectedRows(d, dst, src, names)]

\* ALTER TABLE from RENAME TO to: indexes follow the table
CanRenameTable(d, from, to) == d.tables[from].exists /\ ~d.tables[to].exists

RenameTable(d, from, to) ==
    [d EXCEPT !.tables[to] = d.tables[from],
              !.tables[from] = Absent,
              !.indexes = {IF i.tbl = from THEN [i EXCEPT !.tbl = to] ELSE i : i \in @}]

\* CREATE INDEX IF NOT EXISTS name ON t(c): rejected when the table is
\* missing, a no-op when the name is taken, rejected when the column is missing
CanCreateIndex(d, name, t, c) ==
    /\ d.tables[t].exists
    /\ \/ \E i \in d.indexes : i.name = name
       \/ c \in ColNames(d.tables[t])

CreateIndexIfNotExists(d, name, t, c) ==
    IF \E i \in d.indexes : i.name = name
    THEN d
    ELSE [d EXCEPT !.indexes = @ \cup {[name |-> name, tbl |-> t, col |-> c]}]

\* ------------------------------------------------- DELETE FROM ssh_keys
\* (PRAGMA foreign_keys = ON) the foreign keys of t that reference ssh_keys
KeyFks(t) == {f \in t.fks : f.table = "ssh_keys" /\ f.from \in ColNames(t)}

\* the rows of t that reference key k through foreign key f
Children(t, f, k) == {r \in t.rows : r[f.from] = k}

\* the delete is rejected when a NO ACTION / RESTRICT key is still
\* referenced, or when SET NULL / SET DEFAULT would break a constraint
CanDeleteKeyIn(t, keys, k) ==
    \A f \in KeyFks(t) :
       \/ Children(t, f, k) = {}
       \/ f.on_delete = "CASCADE"
       \/ f.on_delete = "SET NULL" /\ ~Col(t, f.from).notnull
       \/ /\ f.on_delete = "SET DEFAULT"
          /\ DefaultOf(t, f.from) \in (keys \ {k}) \cup {NULL}
          /\ DefaultOf(t, f.from) = NULL => ~Col(t, f.from).notnull

RowAfterDelete(t, r, k) ==
    [c \in DOMAIN r |->
        IF \E f \in KeyFks(t) : f.from = c /\ r[c] = k /\ f.on_delete = "SET NULL"
        THEN NULL
        ELSE IF \E f \in KeyFks(t) : f.from = c /\ r[c] = k /\ f.on_delete = "SET DEFAULT"
        THEN DefaultOf(t, c)
        ELSE r[c]]

TableAfterDelete(t, k) ==
    [t EXCEPT !.rows =
        {RowAfterDelete(t, r, k) :
            r \in {x \in t.rows :
                     ~\E f \in KeyFks(t) : x[f.from] = k /\ f.on_delete = "CASCADE"}}]

CanDeleteKey(d, k) ==
    /\ k \in d.keys
    /\ \A t \in TableNames : CanDeleteKeyIn(d.tables[t], d.keys, k)

DeleteKeyRow(d, k) ==
    [d EXCEPT !.keys = @ \ {k},
              !.tables = [t \in TableNames |-> TableAfterDelete(d.tables[t], k)]]

\* ------------------------------------------------- upgrade(): pure parts
\* (mutant) the guard reads row[2], the referenced table, instead of row[6]
HasCascadeWrongField(fk_rows) == \E row \in fk_rows : row.table = "CASCADE"

\* (mutant) the guard looks at the ssh_key_id foreign key only
HasCascadeOnKeyColumn(fk_rows) ==
    \E row \in fk_rows : row.from = "ssh_key_id" /\ row.on_delete = "CASCADE"

\* any(row[6] == "CASCADE" for row in fk_rows)
HasCascade(fk_rows) == \E row \in fk_rows : row.on_delete = "CASCADE"

\* one column definition of the new table, built from a table_info row
ColDef(row) ==
    IF row.pk # 0
    THEN [name |-> row.name, type |-> row.type, not_null |-> FALSE,
          default |-> NoDefault, primary_key |-> TRUE]
    ELSE [name |-> row.name, type |-> row.type, not_null |-> row.notnull,
          default |-> row.dflt, primary_key |-> FALSE]

\* (mutant) the appended foreign key keeps the old delete action
FkDefStillCascade == [from |-> "ssh_key_id", table |-> "ssh_keys", to |-> "id",
                      on_delete |-> "CASCADE"]

\* FOREIGN KEY (ssh_key_id) REFERENCES ssh_keys(id) ON DELETE SET NULL
FkDef == [from |-> "ssh_key_id", table |-> "ssh_keys", to |-> "id",
          on_delete |-> "SET NULL"]

\* (mutant) the corrected foreign key is never appended to col_defs
NewDdlWithoutFk(rows) ==
    [name     |-> T_NEW,
     col_defs |-> [i \in DOMAIN rows |-> ColDef(rows[i])],
     fk_defs  |-> <<>>]

\* (mutant) the DDL lists the columns known when the migration was written
NewDdlDesignTime(rows) ==
    [name     |-> T_NEW,
     col_defs |-> [i \in {j \in DOMAIN rows : rows[j].name \in {"id", "ssh_key_id", "host"}}
                      |-> ColDef(rows[i])],
     fk_defs  |-> <<FkDef>>]

\* CREATE TABLE ssh_connections_new ( col_defs, corrected FK )
NewDdl(rows) ==
    [name     |-> T_NEW,
     col_defs |-> [i \in DOMAIN rows |-> ColDef(rows[i])],
     fk_defs  |-> <<FkDef>>]

\* (mutant) the copy names the columns known when the migration was written
ColumnNameListDesignTime(rows) ==
    [i \in {j \in DOMAIN rows : rows[j].name \in {"id", "ssh_key_id", "host"}}
        |-> rows[i].name]

\* ", ".join(row[1] for row in col_rows)
ColumnNameList(rows) == [i \in DOMAIN rows |-> rows[i].name]

\* (mutant) the except clause re-raises
OnExceptionReraise == "raised"

\* the except clause: log and return, "Don't raise"
OnException == "failed"

\* ------------------------------------------------- state
VARIABLES
    db,        \* the database: [tables, indexes, keys]
    pc,        \* the statement upgrade() executes next
    col_rows,  \* upgrade()'s local: the PRAGMA table_info rows
    executed,  \* the DDL/DML statements this run has executed, in order
    start,     \* the database as this run of upgrade() found it
    log,       \* one record per finished run of upgrade()
    written    \* rows another connection has inserted into ssh_connections

vars == <<db, pc, col_rows, executed, start, log, written>>

\* ------------------------------------------------- starting databases
IdCol(nn) == [name |-> "id", type |-> "INTEGER", notnull |-> nn,
              dflt |-> NoDefault, pk |-> 1]

KeyCol == [name |-> "ssh_key_id", type |-> "INTEGER", notnull |-> FALSE,
           dflt |-> NoDefault, pk |-> 0]

HostCol == [name |-> "host", type |-> "TEXT", notnull |-> TRUE,
            dflt |-> NoDefault, pk |-> 0]

\* ALTER TABLE ssh_connections ADD COLUMN ...: every second one is
\* NOT NULL DEFAULT 1, the others are nullable without a default
ExtraCol(i) == [name |-> ExtraNames[i], type |-> ExtraTypes[i],
                notnull |-> (i % 2 = 0),
                dflt |-> IF i % 2 = 0 THEN 1 ELSE NoDefault, pk |-> 0]

KeyFkChoices == {"absent_col", "no_fk"} \cup Actions

OtherFkChoices == {"none", "CASCADE", "RESTRICT"}

ConnCols(keyFk, nExtra, pkNotNull) ==
    <<IdCol(pkNotNull)>>
    \o (IF keyFk = "absent_col" THEN <<>> ELSE <<KeyCol>>)
    \o <<HostCol>>
    \o [i \in 1..nExtra |-> ExtraCol(i)]

ConnFks(keyFk, otherFk) ==
    (IF keyFk \in Actions
     THEN {[from |-> "ssh_key_id", table |-> "ssh_keys", to |-> "id", on_delete |-> keyFk]}
     ELSE {})
    \cup
    (IF otherFk \in Actions
     THEN {[from |-> "owner_id", table |-> "users", to |-> "id", on_delete |-> otherFk]}
     ELSE {})

\* row i: its id, the key it uses, and a value of its own in every other column
MkRow(cols, i, k) ==
    [c \in {cols[p].name : p \in DOMAIN cols} |->
        IF c = "id" THEN i
        ELSE IF c = "ssh_key_id" THEN k
        ELSE 10 * (CHOOSE p \in DOMAIN cols : cols[p].name = c) + i]

MkConn(keyFk, nExtra, otherFk, pkNotNull, keyOf) ==
    [exists |-> TRUE,
     cols   |-> ConnCols(keyFk, nExtra, pkNotNull),
     fks    |-> ConnFks(keyFk, otherFk),
     rows   |-> {MkRow(ConnCols(keyFk, nExtra, pkNotNull), i, keyOf[i]) : i \in DOMAIN keyOf}]

\* a scratch table left behind earlier, with columns and a row of its own
StaleScratch ==
    [exists |-> TRUE,
     cols   |-> <<IdCol(FALSE), HostCol>>,
     fks    |-> {},
     rows   |-> {MkRow(<<IdCol(FALSE), HostCol>>, 9, NULL)}]

KeyIndex == [name |-> IX_NAME, tbl |-> T_CONN, col |-> "ssh_key_id"]

\* the database upgrade() is first called on
MkDB(present, keyFk, nExtra, otherFk, pkNotNull, keyOf, scratch, ix) ==
    [tables  |-> [t \in TableNames |->
                     IF t = T_NEW THEN scratch
                     ELSE IF present
                          THEN MkConn(keyFk, nExtra, otherFk, pkNotNull, keyOf)
                          ELSE Absent],
     indexes |-> ix,
     keys    |-> Keys]

\* the states upgrade() may first be called in: every database built from
\* the given choices, with no run of upgrade() started yet
InitFrom(keyFks, extraCounts, pkFlags, keyValues, indexSets) ==
    /\ \E present \in BOOLEAN :
       \E keyFk \in IF present THEN keyFks ELSE {"absent_col"} :
       \E nExtra \in IF present THEN extraCounts ELSE {0} :
       \E otherFk \in IF nExtra = 0 THEN {"none"} ELSE OtherFkChoices :
       \E pkNotNull \in IF present THEN pkFlags ELSE {FALSE} :
       \E n \in IF present THEN 0..MaxRows ELSE {0} :
       \E keyOf \in [1..n -> IF keyFk = "absent_col" THEN {NULL} ELSE keyValues] :
       \E scratch \in {Absent, StaleScratch} :
       \E ix \in IF keyFk = "absent_col" THEN {{}} ELSE indexSets :
          db = MkDB(present, keyFk, nExtra, otherFk, pkNotNull, keyOf, scratch, ix)
    /\ pc = "start"
    /\ col_rows = <<>>
    /\ executed = <<>>
    /\ written = {}
    /\ start = db
    /\ log = <<>>

Init == InitFrom(KeyFkChoices, 0..MaxExtra, BOOLEAN, Keys \cup {NULL}, {{}, {KeyIndex}})

\* ------------------------------------------------- upgrade(connection)
Return(outcome, d, n) ==
    /\ pc' = "done"
    /\ col_rows' = <<>>
    /\ log' = Append(log, [start |-> start, end |-> d, outcome |-> outcome, executed |-> n])

\* (mutant) the except clause rolls the database back to where the run began
RaiseAfterRollback ==
    /\ Return(OnException, start, executed)
    /\ db' = start
    /\ UNCHANGED <<executed, start, written>>

\* a statement raised: the except clause takes over and upgrade returns
Raise == Return(OnException, db, executed) /\ UNCHANGED <<db, executed, start, written>>

\* PRAGMA foreign_key_list + the idempotency guard
Guard ==
    /\ pc = "start"
    /\ IF ~HasCascade(ForeignKeyList(db, T_CONN))
       THEN Return("skipped", db, executed)
       ELSE pc' = "table_info" /\ UNCHANGED <<col_rows, log>>
    /\ UNCHANGED <<db, executed, start, written>>

\* PRAGMA table_info; new_ddl is built from col_rows
ReadColumns ==
    /\ pc = "table_info"
    /\ col_rows' = TableInfo(db, T_CONN)
    /\ pc' = "drop_stale"
    /\ UNCHANGED <<db, executed, start, log, written>>

\* (mutant) the stale scratch table is not dropped before CREATE TABLE
DropStaleOmitted ==
    /\ pc = "drop_stale"
    /\ pc' = "create"
    /\ UNCHANGED <<db, col_rows, executed, start, log, written>>

\* DROP TABLE IF EXISTS ssh_connections_new
DropStale ==
    /\ pc = "drop_stale"
    /\ db' = DropTableIfExists(db, T_NEW)
    /\ executed' = Append(executed, "drop_stale")
    /\ pc' = "create"
    /\ UNCHANGED <<col_rows, start, log, written>>

\* (mutant) the original is dropped right after the scratch table is created
CreateScratchThenDrop ==
    /\ pc = "create"
    /\ IF CanCreateTable(db, NewDdl(col_rows))
       THEN /\ db' = CreateTable(db, NewDdl(col_rows))
            /\ executed' = Append(executed, "create")
            /\ pc' = "drop_original"
            /\ UNCHANGED <<col_rows, start, log, written>>
       ELSE Raise

\* connection.execute(text(new_ddl))
CreateScratch ==
    /\ pc = "create"
    /\ IF CanCreateTable(db, NewDdl(col_rows))
       THEN /\ db' = CreateTable(db, NewDdl(col_rows))
            /\ executed' = Append(executed, "create")
            /\ pc' = "copy"
            /\ UNCHANGED <<col_rows, start, log, written>>
       ELSE Raise

\* INSERT INTO ssh_connections_new (...) SELECT ... FROM ssh_connections
CopyRows ==
    /\ pc = "copy"
    /\ IF CanInsertSelect(db, T_NEW, T_CONN, ColumnNameList(col_rows))
       THEN /\ db' = InsertSelect(db, T_NEW, T_CONN, ColumnNameList(col_rows))
            /\ executed' = Append(executed, "copy")
            /\ pc' = "drop_original"
            /\ UNCHANGED <<col_rows, start, log, written>>
       ELSE Raise

\* (mutant) rows that reached ssh_connections after the copy are carried over
DropOriginalKeepingLateRows ==
    /\ pc = "drop_original"
    /\ IF CanDropTable(db, T_CONN)
       THEN /\ db' = [DropTable(db, T_CONN) EXCEPT
                         !.tables[T_NEW].rows = @ \cup db.tables[T_CONN].rows]
            /\ executed' = Append(executed, "drop_original")
            /\ pc' = "rename"
            /\ UNCHANGED <<col_rows, start, log, written>>
       ELSE Raise

\* DROP TABLE ssh_connections
DropOriginal ==
    /\ pc = "drop_original"
    /\ IF CanDropTable(db, T_CONN)
       THEN /\ db' = DropTable(db, T_CONN)
            /\ executed' = Append(executed, "drop_original")
            /\ pc' = "rename"
            /\ UNCHANGED <<col_rows, start, log, written>>
       ELSE Raise

\* ALTER TABLE ssh_connections_new RENAME TO ssh_connections
RenameScratch ==
    /\ pc = "rename"
    /\ IF CanRenameTable(db, T_NEW, T_CONN)
       THEN /\ db' = RenameTable(db, T_NEW, T_CONN)
            /\ executed' = Append(executed, "rename")
            /\ pc' = "create_index"
            /\ UNCHANGED <<col_rows, start, log, written>>
       ELSE Raise

\* (mutant) upgrade returns after the rename without creating the index
RecreateIndexOmitted ==
    /\ pc = "create_index"
    /\ Return("fixed", db, executed)
    /\ UNCHANGED <<db, executed, start, written>>

\* CREATE INDEX IF NOT EXISTS ix_ssh_connections_ssh_key_id ..., then return
RecreateIndex ==
    /\ pc = "create_index"
    /\ IF CanCreateIndex(db, IX_NAME, T_CONN, "ssh_key_id")
       THEN /\ db' = CreateIndexIfNotExists(db, IX_NAME, T_CONN, "ssh_key_id")
            /\ executed' = Append(executed, "create_index")
            /\ Return("fixed", db', executed')
            /\ UNCHANGED <<start, written>>
       ELSE Raise

\* the runner has no tracking: the next startup calls upgrade() again
Startup ==
    /\ pc = "done"
    /\ Len(log) < MaxRuns
    /\ pc' = "start"
    /\ start' = db
    /\ executed' = <<>>
    /\ UNCHANGED <<db, col_rows, log, written>>

\* between startups the application deletes an SSH key
DeleteKey ==
    /\ pc = "done"
    /\ \E k \in db.keys :
          /\ CanDeleteKey(db, k)
          /\ db' = DeleteKeyRow(db, k)
    /\ UNCHANGED <<pc, col_rows, executed, start, log, written>>

Upgrade ==
    \/ Guard
    \/ ReadColumns
    \/ DropStale
    \/ CreateScratch
    \/ CopyRows
    \/ DropOriginal
    \/ RenameScratch
    \/ RecreateIndex

Next == Upgrade \/ Startup \/ DeleteKey

Spec == Init /\ [][Next]_vars

\* the process stops between two statements of the rebuild; whatever the
\* statements executed so far did stays in the database, and the next
\* startup calls upgrade() again
Crash ==
    /\ pc \in {"table_info", "drop_stale", "create", "copy",
               "drop_original", "rename", "create_index"}
    /\ Len(log) + 1 < MaxRuns
    /\ log' = Append(log, [start |-> start, end |-> db, outcome |-> "crashed",
                           executed |-> executed])
    /\ pc' = "start"
    /\ col_rows' = <<>>
    /\ start' = db
    /\ executed' = <<>>
    /\ UNCHANGED <<db, written>>

NextCrash == Next \/ Crash

SpecCrash == Init /\ [][NextCrash]_vars

\* the statements inside the try block, by the pc that executes them
RebuildPcs == {"table_info", "drop_stale", "create", "copy",
               "drop_original", "rename", "create_index"}

\* a statement inside the try block raises for a reason of the environment
\* (disk full, database locked, ...); SQLite undoes the failing statement
\* itself and nothing else
StatementFails ==
    /\ pc \in RebuildPcs
    /\ Raise

\* PRAGMA foreign_key_list raises: it runs before the try block, so the
\* exception leaves upgrade()
GuardFails ==
    /\ pc = "start"
    /\ Return("raised", db, executed)
    /\ UNCHANGED <<db, executed, start, written>>

\* the databases the fault runs start from: as Init, but with at most one
\* extra column, the plain primary key, and every row using the first key
InitFault == InitFrom(KeyFkChoices, {0, 1}, {FALSE}, {1}, {{}, {KeyIndex}})

\* key deletions are left out: they do not interact with a failing rebuild
NextFault == Upgrade \/ Startup \/ Crash \/ StatementFails \/ GuardFails

SpecFault == InitFault /\ [][NextFault]_vars

\* ------------------------------------------------- downgrade(connection)
\* (mutant) downgrade puts the ssh_key_id foreign key back to CASCADE
DowngradeDbRestoreCascade(d) ==
    [d EXCEPT !.tables[T_CONN].fks =
        {IF f.from = "ssh_key_id" THEN [f EXCEPT !.on_delete = "CASCADE"] ELSE f : f \in @}]

\* the database after downgrade(): the body only prints
DowngradeDb(d) == d

Downgrade ==
    /\ pc = "done"
    /\ Len(log) < MaxRuns
    /\ db' = DowngradeDb(db)
    /\ log' = Append(log, [start |-> db, end |-> db', outcome |-> "downgraded",
                           executed |-> <<>>])
    /\ start' = db
    /\ executed' = <<>>
    /\ UNCHANGED <<pc, col_rows, written>>

NextDowngrade == Upgrade \/ Startup \/ Downgrade

SpecDowngrade == Init /\ [][NextDowngrade]_vars

\* while upgrade() runs, another process inserts a row into
\* ssh_connections and commits; each statement of upgrade() is visible to
\* it as soon as it has executed
WriterInsert ==
    /\ pc \in {"start"} \cup RebuildPcs
    /\ Cardinality(written) < MaxWrites
    /\ db.tables[T_CONN].exists
    /\ LET r == MkRow(db.tables[T_CONN].cols, MaxRows + 1 + Cardinality(written), NULL)
       IN /\ db' = [db EXCEPT !.tables[T_CONN].rows = @ \cup {r}]
          /\ written' = written \cup {[row |-> r, at |-> pc, run |-> Len(log) + 1]}
    /\ UNCHANGED <<pc, col_rows, executed, start, log>>

NextWriter == Upgrade \/ Startup \/ WriterInsert

\* the databases the writer is run against: at most one column after host,
\* every row referencing key 1, the index present
InitWriter == InitFrom(KeyFkChoices, {0, 1}, BOOLEAN, {1}, {{KeyIndex}})

SpecWriter == InitWriter /\ [][NextWriter]_vars

\* ------------------------------------------------- properties
Conn(d) == d.tables[T_CONN]

\* the ssh_key_id foreign key of ssh_connections has delete action a
HasKeyFk(d, a) ==
    \E f \in ForeignKeyList(d, T_CONN) :
       f.from = "ssh_key_id" /\ f.table = "ssh_keys" /\ f.to = "id" /\ f.on_delete = a

\* what PRAGMA table_info and PRAGMA foreign_key_list show of ssh_connections
SchemaOf(d) == [exists |-> Conn(d).exists, cols |-> Conn(d).cols, fks |-> Conn(d).fks]

LastRun == log[Len(log)]

IsPrefix(s, t) == Len(s) <= Len(t) /\ s = SubSeq(t, 1, Len(s))

\* the statements of the try block in the order the code issues them
RebuildOrder ==
    <<"drop_stale", "create", "copy", "drop_original", "rename", "create_index">>

\* the database the first run of upgrade() was called on
FirstStart == IF log = <<>> THEN start ELSE log[1].start

\* some foreign key of ssh_connections, on any column, is ON DELETE CASCADE
CascadeIn(d) == Conn(d).exists /\ \E f \in Conn(d).fks : f.on_delete = "CASCADE"

\* C1: after upgrade has run on a database whose ssh_key_id foreign key was
\* ON DELETE CASCADE, deleting ssh_keys rows deletes no ssh_connections row:
\* every row is still there, with ssh_key_id NULL if its key was deleted and
\* every other value as upgrade left it.
C1_DeleteKeyKeepsConnections ==
    (pc = "done" /\ HasKeyFk(log[1].start, "CASCADE")) =>
        LET before == Conn(LastRun.end).rows
            gone   == LastRun.end.keys \ db.keys
        IN /\ Conn(db).exists
           /\ Cardinality(Conn(db).rows) = Cardinality(before)
           /\ \A r \in before :
                 [r EXCEPT !["ssh_key_id"] = IF @ \in gone THEN NULL ELSE @]
                     \in Conn(db).rows

\* a key that a connection row referenced has been deleted after upgrade
C1_Witness ==
    /\ pc = "done"
    /\ HasKeyFk(log[1].start, "CASCADE")
    /\ \E r \in Conn(LastRun.end).rows : r["ssh_key_id"] \in LastRun.end.keys \ db.keys

\* C2: a run that found some ON DELETE CASCADE foreign key on ssh_connections
\* and in which no statement failed leaves a foreign-key list without CASCADE
\* and with a SET NULL constraint.
C2_CascadeReplacedBySetNull ==
    \A i \in DOMAIN log :
       (CascadeIn(log[i].start) /\ log[i].outcome = "fixed") =>
           /\ ~CascadeIn(log[i].end)
           /\ \E f \in Conn(log[i].end).fks : f.on_delete = "SET NULL"

C2_Witness ==
    \E i \in DOMAIN log :
       /\ HasKeyFk(log[i].start, "CASCADE")
       /\ log[i].outcome = "fixed"
       /\ HasKeyFk(log[i].end, "SET NULL")

\* C3: a second run of upgrade leaves the schema of ssh_connections (columns,
\* foreign keys, delete actions) as the first run left it, and no run raises.
C3_Idempotent ==
    /\ \A i \in DOMAIN log : log[i].outcome # "raised"
    /\ Len(log) >= 2 => SchemaOf(log[2].end) = SchemaOf(log[1].end)

\* the first run rewrote the table and a second run has finished
C3_Witness ==
    /\ Len(log) >= 2
    /\ log[1].outcome = "fixed"
    /\ SchemaOf(log[1].end) # SchemaOf(log[1].start)

\* C4: every run of upgrade leaves in ssh_connections exactly the rows it
\* found there, with the same value in every column, extra columns included.
C4_RowsPreserved ==
    \A i \in DOMAIN log : Conn(log[i].end).rows = Conn(log[i].start).rows

\* a rewrite of a table with MaxRows rows and an extra column has finished
C4_Witness ==
    \E i \in DOMAIN log :
       /\ log[i].outcome = "fixed"
       /\ Cardinality(Conn(log[i].end).rows) = MaxRows
       /\ ExtraNames[1] \in ColNames(Conn(log[i].end))

\* C5 (as claimed): when a run of upgrade on a table with the CASCADE foreign
\* key was cut short by a crash and upgrade then ran again to its end,
\* ssh_connections exists, holds every row it held before the first run, and
\* its ssh_key_id foreign key is ON DELETE SET NULL.
C5_CrashRecovery ==
    \A i \in DOMAIN log :
       (/\ i > 1
        /\ log[i - 1].outcome = "crashed"
        /\ log[i].outcome # "crashed"
        /\ HasKeyFk(log[1].start, "CASCADE")) =>
           /\ Conn(log[i].end).exists
           /\ Conn(log[1].start).rows \subseteq Conn(log[i].end).rows
           /\ HasKeyFk(log[i].end, "SET NULL")

C7_OtherForeignKeysKept ==
    \A i \in DOMAIN log :
       \A f \in Conn(log[i].start).fks :
          f.from # "ssh_key_id" => f \in Conn(log[i].end).fks

\* C8: on a table that still has the CASCADE foreign key, with any number of
\* extra columns, upgrade completes the rewrite and every column it found,
\* the extra ones included, is a column of ssh_connections afterwards.
C8_ExtraColumnsKept ==
    \A i \in DOMAIN log :
       HasKeyFk(log[i].start, "CASCADE") =>
          /\ log[i].outcome = "fixed"
          /\ ColNames(Conn(log[i].start)) \subseteq ColNames(Conn(log[i].end))

\* a table with MaxExtra extra columns has been rewritten
C8_Witness ==
    \E i \in DOMAIN log :
       /\ HasKeyFk(log[i].start, "CASCADE")
       /\ Len(Conn(log[i].start).cols) = 3 + MaxExtra
       /\ {ExtraNames[j] : j \in 1..MaxExtra} \subseteq ColNames(Conn(log[i].end))

\* C9: with a stale ssh_connections_new in place and the CASCADE foreign key
\* still on ssh_connections, upgrade completes the rewrite, and
\* ssh_connections then holds exactly the rows of the original table.
C9_StaleScratchReplaced ==
    \A i \in DOMAIN log :
       (log[i].start.tables[T_NEW].exists /\ HasKeyFk(log[i].start, "CASCADE")) =>
          /\ log[i].outcome = "fixed"
          /\ Conn(log[i].end).exists
          /\ Conn(log[i].end).rows = Conn(log[i].start).rows

\* the stale scratch table held a row that the original table did not
C9_Witness ==
    \E i \in DOMAIN log :
       /\ HasKeyFk(log[i].start, "CASCADE")
       /\ log[i].start.tables[T_NEW].rows # {}
       /\ Conn(log[i].start).rows # {}
       /\ log[i].outcome = "fixed"

\* C10 (as claimed): when the ssh_key_id foreign key is already SET NULL, or
\* the ssh_key_id column or its foreign key is absent, upgrade returns having
\* executed no DDL or DML statement and the database is unchanged.
C10_SkipWithoutSideEffects ==
    \A i \in DOMAIN log :
       (\/ HasKeyFk(log[i].start, "SET NULL")
        \/ "ssh_key_id" \notin ColNames(Conn(log[i].start))
        \/ ~\E f \in Conn(log[i].start).fks : f.from = "ssh_key_id") =>
           /\ log[i].outcome = "skipped"
           /\ log[i].executed = <<>>
           /\ log[i].end = log[i].start

\* C11: a statement of the rebuild that fails makes upgrade return without
\* raising; no later statement is executed and the database stays as the last
\* successful statement left it (nothing is rolled back).
C11_FailureIsolation ==
    [][(pc \in RebuildPcs /\ pc' = "done" /\ log'[Len(log')].outcome # "fixed") =>
          /\ log'[Len(log')].outcome = "failed"
          /\ db' = db
          /\ log'[Len(log')].end = db
          /\ log'[Len(log')].executed = executed]_vars

\* the rename failed after the original table had been dropped
C11_Witness ==
    \E i \in DOMAIN log :
       /\ log[i].outcome = "failed"
       /\ Len(log[i].executed) = 4
       /\ ~Conn(log[i].end).exists
       /\ log[i].end.tables[T_NEW].exists

\* C12 (as claimed): when ssh_connections does not exist at the start of
\* upgrade, the run ends in an error that reaches the caller, not in the
\* already-satisfied skip.
C12_MissingTableIsError ==
    \A i \in DOMAIN log :
       ~Conn(log[i].start).exists => log[i].outcome = "raised"

\* C13: upgrade runs the rebuild exactly when some foreign key of
\* ssh_connections, on any column, is ON DELETE CASCADE when the guard reads
\* the catalog; otherwise it returns at once, having executed nothing.
C13_GuardAsCoded ==
    /\ pc \in RebuildPcs => CascadeIn(start)
    /\ \A i \in DOMAIN log :
          IF CascadeIn(log[i].start)
          THEN log[i].outcome # "skipped" /\ Len(log[i].executed) >= 1
          ELSE /\ log[i].outcome = "skipped"
               /\ log[i].executed = <<>>
               /\ log[i].end = log[i].start

\* a CASCADE on another column alone has started the rebuild
C13_Witness ==
    \E i \in DOMAIN log :
       /\ CascadeIn(log[i].start)
       /\ ~HasKeyFk(log[i].start, "CASCADE")
       /\ log[i].executed # <<>>

\* C14 (as claimed): after a rewrite in which no statement failed,
\* ssh_connections has the same columns in the same order, each with the
\* same type, NOT NULL flag, default and primary-key flag as before.
C14_SchemaFaithful ==
    \A i \in DOMAIN log :
       log[i].outcome = "fixed" => Conn(log[i].end).cols = Conn(log[i].start).cols

\* C15: within one run the statements are executed only in the order drop
\* stale scratch, create scratch, copy rows, drop original, rename, create
\* index; the original ssh_connections is gone within a run only after the
\* scratch table was created and the copy succeeded earlier in that run.
C15_StatementOrder ==
    /\ IsPrefix(executed, RebuildOrder)
    /\ \A i \in DOMAIN log : IsPrefix(log[i].executed, RebuildOrder)
    /\ (pc \in RebuildPcs /\ Conn(start).exists /\ ~Conn(db).exists) =>
          /\ SubSeq(executed, 1, 4) = SubSeq(RebuildOrder, 1, 4)
          /\ Conn(start).rows \subseteq db.tables[T_NEW].rows

\* a run that executed all six statements
C15_Witness ==
    \E i \in DOMAIN log :
       log[i].executed = RebuildOrder /\ Conn(log[i].start).rows # {}

\* C16: in every reachable state, whatever crash or failed statement and
\* however many later calls of upgrade came before it, every row that
\* ssh_connections held before the first run is in ssh_connections or in
\* ssh_connections_new.
C16_RowsAlwaysHeld ==
    Conn(FirstStart).rows \subseteq (Conn(db).rows \cup db.tables[T_NEW].rows)

\* the first run stopped after DROP TABLE ssh_connections, a later call of
\* upgrade has returned, and the rows are held by the scratch table alone
C16_Witness ==
    /\ Len(log) >= 2
    /\ log[1].outcome \in {"crashed", "failed"}
    /\ Conn(log[1].start).rows # {}
    /\ ~Conn(db).exists
    /\ Conn(log[1].start).rows \subseteq db.tables[T_NEW].rows

\* C17: at the end of a rewrite in which no statement failed the index
\* ix_ssh_connections_ssh_key_id on ssh_connections(ssh_key_id) exists,
\* whether or not it existed before, and CREATE INDEX IF NOT EXISTS, once
\* reached, does not fail.
C17_IndexRecreated ==
    /\ pc = "create_index" => CanCreateIndex(db, IX_NAME, T_CONN, "ssh_key_id")
    /\ \A i \in DOMAIN log :
          /\ log[i].outcome = "fixed" =>
                [name |-> IX_NAME, tbl |-> T_CONN, col |-> "ssh_key_id"]
                    \in log[i].end.indexes
          /\ Len(log[i].executed) >= 5 => log[i].outcome = "fixed"

\* the index existed before the rewrite and is there, once, after it
C17_Witness ==
    \E i \in DOMAIN log :
       /\ log[i].outcome = "fixed"
       /\ \E x \in log[i].start.indexes : x.name = IX_NAME
       /\ Cardinality(log[i].end.indexes) = 1

\* C18: a row another process inserts into ssh_connections after the copy
\* statement and before DROP TABLE ssh_connections is absent from
\* ssh_connections when that run of upgrade has finished; a run during which
\* no other process wrote loses no row.
C18_WriterRace ==
    \A i \in DOMAIN log :
       log[i].outcome = "fixed" =>
          LET during == {w \in written : w.run = i}
          IN /\ \A w \in during :
                   w.at = "drop_original" => w.row \notin Conn(log[i].end).rows
             /\ during = {} => Conn(log[i].start).rows \subseteq Conn(log[i].end).rows

\* a row was written between the copy and the drop of a run that ended fixed
C18_Witness ==
    \E i \in DOMAIN log : \E w \in written :
       /\ log[i].outcome = "fixed"
       /\ w.run = i
       /\ w.at = "drop_original"
       /\ Conn(log[i].start).rows # {}

====
